---- MODULE Spec2Model ----
(***************************************************************************)
(* Travel planning API: the request-handling workflows of src/main.py and  *)
(* src/app/main.py (single-domain search, combined search, itinerary-only  *)
(* synthesis, conversation-derived itinerary), the search gateway of       *)
(* src/services/serp.py, the formatters of src/helpers/helper.py and       *)
(* src/app/helpers/helper.py, the response models of src/models/model.py   *)
(* and src/app/models/model.py and the synthesizers of                     *)
(* src/app/services/crew.py.                                               *)
(*                                                                         *)
(* One behaviour is one request served by one of the two applications      *)
(* ("root" is src/main.py, "app" is src/app/main.py).  A step is the code  *)
(* a coroutine runs between two suspension points; the outcome of an       *)
(* external call is chosen when the call returns.                          *)
(***************************************************************************)
EXTENDS Integers, Sequences, FiniteSets, TLC

\* Largest number of raw records the search provider returns in one batch.
MaxRecords == 2

Variants == {"root", "app"}
Domains == {"flights", "hotels"}

\* Routes; src/main.py declares the first four, src/app/main.py all five.
Endpoints ==
  {"search_flights", "search_hotels", "complete_search",
   "generate_itinerary", "from_conversation"}

EndpointsOf(v) ==
  IF v = "root" THEN Endpoints \ {"from_conversation"} ELSE Endpoints

\* status_code=500 of every HTTPException the handlers raise.
HTTP_500 == 500
\* Status of a handler that returns its response model.
HTTP_200 == 200

-----------------------------------------------------------------------------
(* Text values.  A literal string is a text with its characters in tag; a  *)
(* text built from listings or by a synthesizer records what it was built  *)
(* from, so that two texts are equal exactly when built from equal inputs. *)

Lit(s) == [tag |-> s, meta |-> <<>>, a |-> <<>>, b |-> <<>>, days |-> 0]

EmptyString == Lit("")
CouldNotRetrieveFlights == Lit("Could not retrieve flights.")
CouldNotRetrieveHotels == Lit("Could not retrieve hotels.")
ItineraryApology ==
  Lit("Unable to generate itinerary due to an error. Please try again later.")

Placeholder(d) ==
  IF d = "flights" THEN CouldNotRetrieveFlights ELSE CouldNotRetrieveHotels

\* WorkflowType value used for a domain's recommendation.
KindOf(d) == IF d = "flights" THEN "flight" ELSE "hotel"

RecommendationApology(kind) ==
  IF kind = "flight"
    THEN Lit("Unable to generate flight recommendation due to an error.")
    ELSE Lit("Unable to generate hotel recommendation due to an error.")

\* What the text-generation backend answers to a recommendation task: a
\* deterministic function of the workflow kind and of the data it was given.
BackendRecommendation(kind, text) ==
  [tag |-> "recommendation", meta |-> <<kind, text.tag>>,
   a |-> text.a, b |-> <<>>, days |-> 0]

\* What the backend answers to an itinerary task: a function of the task
\* description (day count, both texts, destination, both dates).
BackendItinerary(destination, flights_text, hotels_text, cin, cout, days) ==
  [tag |-> "itinerary",
   meta |-> <<destination, cin, cout, flights_text.tag, hotels_text.tag>>,
   a |-> flights_text.a, b |-> hotels_text.a, days |-> days]

-----------------------------------------------------------------------------
(* Requests.                                                               *)

Dates == {"", "2025-12-01", "2025-12-08"}

\* datetime.strptime(d, "%Y-%m-%d") as a day count; defined on the non-empty
\* dates only (strptime raises ValueError on "").
DayNumber(d) == IF d = "2025-12-01" THEN 1 ELSE 8

FlightRequests ==
  { [origin |-> "SFO", destination |-> "JFK",
     outbound_date |-> "2025-12-01", return_date |-> "2025-12-08"],
    [origin |-> "SFO", destination |-> "HND",
     outbound_date |-> "2025-12-08", return_date |-> "2025-12-01"],
    [origin |-> "SFO", destination |-> "JFK",
     outbound_date |-> "2025-12-01", return_date |-> ""] }

\* hotel_request: Optional[HotelRequest]; None is NoHotelRequest.
NoHotelRequest ==
  [location |-> "None", check_in_date |-> "None", check_out_date |-> "None"]

HotelRequests ==
  { [location |-> "New York",
     check_in_date |-> "2025-12-01", check_out_date |-> "2025-12-08"],
    [location |-> "Tokyo",
     check_in_date |-> "2025-12-08", check_out_date |-> "2025-12-08"] }

\* ItineraryResponse: the plan the conversation parser produces.
NoPlan ==
  [departure_location |-> "None", departure_date |-> "None",
   arrival_location |-> "None", arrival_date |-> "None",
   departure_flight_airport_code |-> "None",
   arrival_flight_airport_code |-> "None"]

Plans ==
  { [departure_location |-> "San Francisco", departure_date |-> "2025-12-01",
     arrival_location |-> "Tokyo", arrival_date |-> "2025-12-08",
     departure_flight_airport_code |-> "SFO",
     arrival_flight_airport_code |-> "HND"],
    [departure_location |-> "San Francisco", departure_date |-> "2025-12-08",
     arrival_location |-> "New York", arrival_date |-> "2025-12-01",
     departure_flight_airport_code |-> "SFO",
     arrival_flight_airport_code |-> "JFK"] }

\* Body of POST /generate_itinerary/ (ItineraryRequest): two texts and dates.
ItineraryRequests ==
  { [destination |-> "JFK", flights |-> Lit("caller flights"),
     hotels |-> Lit("caller hotels"), check_in_date |-> cin,
     check_out_date |-> cout] : cin \in Dates, cout \in Dates }

NoItineraryRequest ==
  [destination |-> "None", flights |-> EmptyString, hotels |-> EmptyString,
   check_in_date |-> "None", check_out_date |-> "None"]

-----------------------------------------------------------------------------
(* Search gateway.                                                         *)

\* A raw record of the provider's batch: well formed ("ok"), without its
\* fields ("missing": a flight with no "flights" legs, a hotel with no keys),
\* or with a nested field that is not a mapping ("badnested").
RecordKinds == {"ok", "missing", "badnested"}

Batches == UNION { [1..n -> RecordKinds] : n \in 0..MaxRecords }

\* What GoogleSearch(params).get_dict() does: raises, answers with an
\* "error" field, or answers with a batch of records.
RawOutcomes ==
  { [kind |-> "raise", records |-> <<>>], [kind |-> "error", records |-> <<>>] }
    \cup { [kind |-> "batch", records |-> r] : r \in Batches }

NoRaw == [kind |-> "none", records |-> <<>>]

\* Positions of the records whose kind is in kinds, in batch order.  A listing
\* is identified by the position of the record it was made from.
KeptIndices(records, kinds) ==
  LET F[i \in 0..Len(records)] ==
        IF i = 0 THEN <<>>
        ELSE IF records[i] \in kinds THEN Append(F[i - 1], i) ELSE F[i - 1]
  IN  F[Len(records)]

\* Results of a search call: a listing list, the {"error": ...} value, the
\* HTTPException run_search raises, or another exception.
SearchList(items) == [kind |-> "list", items |-> items]
SearchError == [kind |-> "error", items |-> <<>>]
SearchHTTPException == [kind |-> "http_exception", items |-> <<>>]
SearchException == [kind |-> "exception", items |-> <<>>]
NoSearchResult == [kind |-> "none", items |-> <<>>]

\* search_flights raising on an "error" field instead of returning it.
SearchFlights_RaiseOnError(raw) ==
  IF raw.kind = "raise" THEN SearchHTTPException
  ELSE IF raw.kind = "error" THEN SearchHTTPException
  ELSE IF \E i \in 1..Len(raw.records) : raw.records[i] = "badnested"
    THEN SearchException
  ELSE SearchList(KeptIndices(raw.records, {"ok"}))

\* SerpAPIService.search_flights: run_search re-raises as HTTPException; an
\* "error" field is returned as a value; a record without legs is skipped;
\* first_leg.get('departure_airport', {}).get(...) on a non-mapping raises
\* AttributeError, which nothing in search_flights catches.
SearchFlights(raw) ==
  IF raw.kind = "raise" THEN SearchHTTPException
  ELSE IF raw.kind = "error" THEN SearchError
  ELSE IF \E i \in 1..Len(raw.records) : raw.records[i] = "badnested"
    THEN SearchException
  ELSE SearchList(KeptIndices(raw.records, {"ok"}))

\* SerpAPIService.search_hotels: each HotelInfo is built inside try/except,
\* so a record whose rate_per_night is not a mapping is skipped; a record
\* without keys gets every default and is kept.
SearchHotels(raw) ==
  IF raw.kind = "raise" THEN SearchHTTPException
  ELSE IF raw.kind = "error" THEN SearchError
  ELSE SearchList(KeptIndices(raw.records, {"ok", "missing"}))

\* app.services.serp.SerpAPIService (imported by src/app/main.py): the
\* gateway contract -- error value on a provider error, raise on a transport
\* failure, malformed records skipped.
AppSearch(d, raw) ==
  IF raw.kind = "raise" THEN SearchHTTPException
  ELSE IF raw.kind = "error" THEN SearchError
  ELSE SearchList(KeptIndices(raw.records, {"ok"}))

Search(v, d, raw) ==
  IF v = "app" THEN AppSearch(d, raw)
  ELSE IF d = "flights" THEN SearchFlights(raw)
  ELSE SearchHotels(raw)

-----------------------------------------------------------------------------
(* Formatters.  The result is the text, or raised = TRUE when the          *)
(* formatter raises (iterating the {"error": ...} dict yields its key, a   *)
(* str, and flight.airline / hotel.name raises AttributeError).            *)

FormatReturn(text) == [raised |-> FALSE, text |-> text]
FormatRaise == [raised |-> TRUE, text |-> EmptyString]

\* format_travel_data without its "if not data" test: an empty list is
\* formatted as the empty text.
format_travel_data_NoEmptyTest(data_type, data) ==
  IF data_type \notin {"flights", "hotels"}
    THEN FormatReturn(Lit("Invalid data type."))
  ELSE IF data.kind # "list" THEN FormatRaise
  ELSE IF data.items = <<>> THEN FormatReturn(EmptyString)
  ELSE FormatReturn([tag |-> data_type, meta |-> <<>>, a |-> data.items,
                     b |-> <<>>, days |-> 0])

\* format_travel_data with its emptiness test widened to "not a non-empty
\* list": the {"error": ...} value would format as "No flights available.".
format_travel_data_ErrorAsEmpty(data_type, data) ==
  IF data.kind # "list" \/ data.items = <<>>
    THEN FormatReturn(IF data_type = "flights"
                        THEN Lit("No flights available.")
                        ELSE Lit("No hotels available."))
  ELSE FormatReturn([tag |-> data_type, meta |-> <<>>, a |-> data.items,
                     b |-> <<>>, days |-> 0])

\* helpers.helper.format_travel_data(data_type, data)
format_travel_data(data_type, data) ==
  IF data.kind = "list" /\ data.items = <<>>
    THEN FormatReturn(IF data_type = "flights"
                        THEN Lit("No flights available.")
                        ELSE Lit("No hotels available."))
  ELSE IF data_type \notin {"flights", "hotels"}
    THEN FormatReturn(Lit("Invalid data type."))
  ELSE IF data.kind # "list" THEN FormatRaise
  ELSE FormatReturn([tag |-> data_type, meta |-> <<>>, a |-> data.items,
                     b |-> <<>>, days |-> 0])

\* app.helpers.helper.format_flight_data(flights)
format_flight_data(flights) ==
  IF flights.kind = "list" /\ flights.items = <<>>
    THEN FormatReturn(Lit("No flights available."))
  ELSE IF flights.kind # "list" THEN FormatRaise
  ELSE FormatReturn([tag |-> "flights", meta |-> <<>>, a |-> flights.items,
                     b |-> <<>>, days |-> 0])

\* app.helpers.helper.format_hotel_data(hotels)
format_hotel_data(hotels) ==
  IF hotels.kind = "list" /\ hotels.items = <<>>
    THEN FormatReturn(Lit("No hotels available."))
  ELSE IF hotels.kind # "list" THEN FormatRaise
  ELSE FormatReturn([tag |-> "hotels", meta |-> <<>>, a |-> hotels.items,
                     b |-> <<>>, days |-> 0])

\* The formatter each application's handlers call for a domain.
Format(v, d, data) ==
  IF v = "root" THEN format_travel_data(d, data)
  ELSE IF d = "flights" THEN format_flight_data(data)
  ELSE format_hotel_data(data)

-----------------------------------------------------------------------------
(* Response models.  kw is the keyword arguments of the constructor call,  *)
(* a function from the names passed to their values.                       *)

Absent == Lit("<absent>")

\* Body of a response that carries no AIResponse (an error response).
NoBody ==
  [flights |-> <<>>, hotels |-> <<>>, ai_flight_recommendation |-> Absent,
   ai_hotel_recommendation |-> Absent, itinerary |-> Absent]

Constructed(body) == [raised |-> FALSE, body |-> body]
ValidationError == [raised |-> TRUE, body |-> NoBody]

\* AIResponse whose text fields have no default: one that is not passed is
\* None.
RootAIResponse_TextsDefaultToNone(kw) ==
  Constructed(
    [flights |-> IF "flights" \in DOMAIN kw THEN kw.flights ELSE <<>>,
     hotels |-> IF "hotels" \in DOMAIN kw THEN kw.hotels ELSE <<>>,
     ai_flight_recommendation |->
       IF "ai_flight_recommendation" \in DOMAIN kw
         THEN kw.ai_flight_recommendation ELSE Absent,
     ai_hotel_recommendation |->
       IF "ai_hotel_recommendation" \in DOMAIN kw
         THEN kw.ai_hotel_recommendation ELSE Absent,
     itinerary |-> IF "itinerary" \in DOMAIN kw THEN kw.itinerary
                   ELSE Absent])

\* models.model.AIResponse: five fields, each with a default.
RootAIResponse(kw) ==
  Constructed(
    [flights |-> IF "flights" \in DOMAIN kw THEN kw.flights ELSE <<>>,
     hotels |-> IF "hotels" \in DOMAIN kw THEN kw.hotels ELSE <<>>,
     ai_flight_recommendation |->
       IF "ai_flight_recommendation" \in DOMAIN kw
         THEN kw.ai_flight_recommendation ELSE EmptyString,
     ai_hotel_recommendation |->
       IF "ai_hotel_recommendation" \in DOMAIN kw
         THEN kw.ai_hotel_recommendation ELSE EmptyString,
     itinerary |-> IF "itinerary" \in DOMAIN kw THEN kw.itinerary
                   ELSE EmptyString])

\* app.models.model.AIResponse: itinerary (default "") and itinerary_json,
\* which has no default, so a call that does not pass it raises pydantic's
\* ValidationError; keyword arguments naming no field are ignored.
AppAIResponse(kw) ==
  IF "itinerary_json" \notin DOMAIN kw THEN ValidationError
  ELSE Constructed(
    [flights |-> <<>>, hotels |-> <<>>, ai_flight_recommendation |-> Absent,
     ai_hotel_recommendation |-> Absent,
     itinerary |-> IF "itinerary" \in DOMAIN kw THEN kw.itinerary
                   ELSE EmptyString])

\* AIResponse as each application imports it.
AIResponse(v, kw) == IF v = "root" THEN RootAIResponse(kw) ELSE AppAIResponse(kw)

-----------------------------------------------------------------------------
(* Outcomes of a handler or of a branch task.                              *)

Returned(body) ==
  [kind |-> "AIResponse", status |-> HTTP_200, detail |-> "", body |-> body]

HTTPException(detail) ==
  [kind |-> "HTTPException", status |-> HTTP_500, detail |-> detail,
   body |-> NoBody]

\* An exception no handler catches: the framework answers 500.
Unhandled ==
  [kind |-> "Exception", status |-> HTTP_500,
   detail |-> "Internal Server Error", body |-> NoBody]

NoOutcome == [kind |-> "none", status |-> 0, detail |-> "", body |-> NoBody]

\* detail prefix of the except Exception clause of a single-domain handler.
DomainError(d) ==
  IF d = "flights" THEN "Flight search error" ELSE "Hotel search error"

-----------------------------------------------------------------------------
(* Synthesizers.  backend is what the text-generation backend does when    *)
(* the crew is kicked off: "ok" (it answers) or "raise".                   *)

BackendOutcomes == {"ok", "raise"}

\* services.crew.CrewAIService.get_ai_recommendation as src/main.py calls it
\* (data_type, formatted_data): the synthesizer contract -- always returns
\* text, the apology string when the backend fails.
RootGetAiRecommendation(kind, text, backend) ==
  IF backend = "ok" THEN BackendRecommendation(kind, text)
  ELSE RecommendationApology(kind)

\* app.services.crew.CrewAIService.get_ai_recommendation: kickoff inside
\* try/except, the apology string on any exception.
get_ai_recommendation(kind, text, backend) ==
  IF backend = "ok" THEN BackendRecommendation(kind, text)
  ELSE RecommendationApology(kind)

GetAiRecommendation(v, kind, text, backend) ==
  IF v = "root" THEN RootGetAiRecommendation(kind, text, backend)
  ELSE get_ai_recommendation(kind, text, backend)

\* Parameters get_ai_recommendation declares after self, per application.
RecommendationParams(v) ==
  IF v = "root" THEN <<"data_type", "formatted_data">>
  ELSE <<"data_type", "formatted_data", "conversation_text">>

\* Positional arguments both applications' handlers pass:
\* get_ai_recommendation(WorkflowType.FLIGHT, flights_text).
RecommendationArgs == <<"data_type", "formatted_data">>

\* Calling with too few positional arguments raises TypeError at the call.
RecommendationCallRaises(v) ==
  Len(RecommendationArgs) # Len(RecommendationParams(v))

\* Arguments of a generate_itinerary call.
ItineraryArgs(destination, flights_text, hotels_text, cin, cout) ==
  [destination |-> destination, flights_text |-> flights_text,
   hotels_text |-> hotels_text, check_in_date |-> cin, check_out_date |-> cout]

NoItineraryArgs ==
  ItineraryArgs("None", EmptyString, EmptyString, "None", "None")

\* generate_itinerary_prepare without the test for empty dates: a missing
\* range counts as zero days and the backend is asked.
generate_itinerary_prepare_NoDateTest(args) ==
  IF args.destination = "" \/ args.flights_text = EmptyString
    THEN [call |-> FALSE, days |-> 0]
    ELSE [call |-> TRUE,
          days |-> IF args.check_in_date = "" \/ args.check_out_date = ""
                     THEN 0
                   ELSE DayNumber(args.check_out_date)
                          - DayNumber(args.check_in_date)]

\* generate_itinerary_prepare with the day count clamped at zero.
generate_itinerary_prepare_Clamped(args) ==
  IF \/ args.destination = "" \/ args.flights_text = EmptyString
     \/ args.check_in_date = "" \/ args.check_out_date = ""
    THEN [call |-> FALSE, days |-> 0]
    ELSE [call |-> TRUE,
          days |-> IF DayNumber(args.check_out_date)
                        < DayNumber(args.check_in_date) THEN 0
                   ELSE DayNumber(args.check_out_date)
                          - DayNumber(args.check_in_date)]

\* app.services.crew.CrewAIService.generate_itinerary up to the kickoff:
\* __create_task raises ValueError when destination, flights_text or a date
\* is empty (caught: the apology string is returned and the backend is not
\* called); otherwise days = (check_out - check_in).days goes into the task.
generate_itinerary_prepare(args) ==
  IF \/ args.destination = "" \/ args.flights_text = EmptyString
     \/ args.check_in_date = "" \/ args.check_out_date = ""
    THEN [call |-> FALSE, days |-> 0]
    ELSE [call |-> TRUE,
          days |-> DayNumber(args.check_out_date)
                     - DayNumber(args.check_in_date)]

\* services.crew.CrewAIService.generate_itinerary of src/main.py's
\* application: the contract -- a missing or non-positive day range is
\* accepted and passed through, the backend is always asked.
RootGenerateItineraryPrepare(args) ==
  [call |-> TRUE,
   days |-> IF args.check_in_date = "" \/ args.check_out_date = "" THEN 0
            ELSE DayNumber(args.check_out_date)
                   - DayNumber(args.check_in_date)]

GenerateItineraryPrepare(v, args) ==
  IF v = "root" THEN RootGenerateItineraryPrepare(args)
  ELSE generate_itinerary_prepare(args)

\* generate_itinerary_finish whose except clause returns the empty string.
generate_itinerary_finish_EmptyOnError(args, days, backend) ==
  IF backend = "ok"
    THEN BackendItinerary(args.destination, args.flights_text,
                          args.hotels_text, args.check_in_date,
                          args.check_out_date, days)
    ELSE EmptyString

\* generate_itinerary from the kickoff on: the backend's text, or the
\* apology string when it raised (except Exception).
generate_itinerary_finish(args, days, backend) ==
  IF backend = "ok"
    THEN BackendItinerary(args.destination, args.flights_text,
                          args.hotels_text, args.check_in_date,
                          args.check_out_date, days)
    ELSE ItineraryApology

\* The same for src/main.py's application, by the synthesizer contract.
RootGenerateItineraryFinish(args, days, backend) ==
  IF backend = "ok"
    THEN BackendItinerary(args.destination, args.flights_text,
                          args.hotels_text, args.check_in_date,
                          args.check_out_date, days)
    ELSE ItineraryApology

GenerateItineraryFinish(v, args, days, backend) ==
  IF v = "root" THEN RootGenerateItineraryFinish(args, days, backend)
  ELSE generate_itinerary_finish(args, days, backend)

-----------------------------------------------------------------------------
(* The single-domain handlers get_flight_recommendations and               *)
(* get_hotel_recommendations, as pure steps.                               *)

\* AfterSearch without the except HTTPException: raise clause: the
\* HTTPException of run_search is wrapped like any other exception.
AfterSearch_WrapsHTTPException(v, d, rawo) ==
  LET res == Search(v, d, rawo)
      fmt == Format(v, d, res)
  IN  IF res.kind \in {"http_exception", "exception"} \/ fmt.raised
        THEN [next |-> "done", outcome |-> HTTPException(DomainError(d)),
              found |-> res, text |-> EmptyString]
      ELSE IF RecommendationCallRaises(v)
        THEN [next |-> "done", outcome |-> HTTPException(DomainError(d)),
              found |-> res, text |-> fmt.text]
      ELSE [next |-> "recommending", outcome |-> NoOutcome,
            found |-> res, text |-> fmt.text]

\* AfterSearch that goes on to the recommendation call when the formatter
\* could not read the search result, as if the error value were a list.
AfterSearch_ErrorValueTolerated(v, d, rawo) ==
  LET res == Search(v, d, rawo)
      fmt == Format(v, d, res)
  IN  IF res.kind = "http_exception"
        THEN [next |-> "done", outcome |-> HTTPException("Search API error"),
              found |-> res, text |-> EmptyString]
      ELSE IF res.kind = "exception"
        THEN [next |-> "done", outcome |-> HTTPException(DomainError(d)),
              found |-> res, text |-> EmptyString]
      ELSE IF RecommendationCallRaises(v)
        THEN [next |-> "done", outcome |-> HTTPException(DomainError(d)),
              found |-> res, text |-> fmt.text]
      ELSE [next |-> "recommending", outcome |-> NoOutcome,
            found |-> res, text |-> fmt.text]

\* AfterSearch with an empty listing list treated as a failure of the
\* search (the handler raising instead of asking for a recommendation).
AfterSearch_EmptyIsFailure(v, d, rawo) ==
  LET res == Search(v, d, rawo)
      fmt == Format(v, d, res)
  IN  IF res.kind = "http_exception"
        THEN [next |-> "done", outcome |-> HTTPException("Search API error"),
              found |-> res, text |-> EmptyString]
      ELSE IF res.kind = "exception" \/ fmt.raised \/ res.items = <<>>
        THEN [next |-> "done", outcome |-> HTTPException(DomainError(d)),
              found |-> res, text |-> EmptyString]
      ELSE IF RecommendationCallRaises(v)
        THEN [next |-> "done", outcome |-> HTTPException(DomainError(d)),
              found |-> res, text |-> fmt.text]
      ELSE [next |-> "recommending", outcome |-> NoOutcome,
            found |-> res, text |-> fmt.text]

\* From the return of the search call to the next suspension: re-raise the
\* HTTPException of run_search; wrap any other exception (of the search, of
\* the formatter, of the get_ai_recommendation call) in a 500 with the
\* domain's message; otherwise the recommendation call is now awaited.
AfterSearch(v, d, rawo) ==
  LET res == Search(v, d, rawo)
      fmt == Format(v, d, res)
  IN  IF res.kind = "http_exception"
        THEN [next |-> "done", outcome |-> HTTPException("Search API error"),
              found |-> res, text |-> EmptyString]
      ELSE IF res.kind = "exception" \/ fmt.raised
        THEN [next |-> "done", outcome |-> HTTPException(DomainError(d)),
              found |-> res, text |-> EmptyString]
      ELSE IF RecommendationCallRaises(v)
        THEN [next |-> "done", outcome |-> HTTPException(DomainError(d)),
              found |-> res, text |-> fmt.text]
      ELSE [next |-> "recommending", outcome |-> NoOutcome,
            found |-> res, text |-> fmt.text]

\* From the return of get_ai_recommendation to the handler's return:
\* AIResponse(flights=flights if isinstance(flights, list) else [],
\*            ai_flight_recommendation=ai_recommendation).
AfterRecommendation(v, d, res, text, backend) ==
  LET rec == GetAiRecommendation(v, KindOf(d), text, backend)
      items == IF res.kind = "list" THEN res.items ELSE <<>>
      made == IF d = "flights"
                THEN AIResponse(v, [flights |-> items,
                                    ai_flight_recommendation |-> rec])
                ELSE AIResponse(v, [hotels |-> items,
                                    ai_hotel_recommendation |-> rec])
  IN  IF made.raised THEN HTTPException(DomainError(d))
      ELSE Returned(made.body)

-----------------------------------------------------------------------------
(* The join of the combined workflows.                                     *)

\* JoinLocals that keeps a branch's result only when both branches returned
\* an AIResponse.
JoinLocals_AllOrNothing(flight_results, hotel_results) ==
  LET both == /\ flight_results.kind = "AIResponse"
              /\ hotel_results.kind = "AIResponse"
  IN  [flights |-> IF both THEN flight_results.body.flights ELSE <<>>,
       hotels |-> IF both THEN hotel_results.body.hotels ELSE <<>>,
       ai_flight_recommendation |->
         IF both THEN flight_results.body.ai_flight_recommendation
         ELSE CouldNotRetrieveFlights,
       ai_hotel_recommendation |->
         IF both THEN hotel_results.body.ai_hotel_recommendation
         ELSE CouldNotRetrieveHotels,
       itinerary |-> EmptyString]

\* JoinLocals with the recommendation defaults initialised to "" instead of
\* the placeholder strings.
JoinLocals_NoPlaceholders(flight_results, hotel_results) ==
  [flights |-> IF flight_results.kind = "AIResponse"
                 THEN flight_results.body.flights ELSE <<>>,
   hotels |-> IF hotel_results.kind = "AIResponse"
                THEN hotel_results.body.hotels ELSE <<>>,
   ai_flight_recommendation |->
     IF flight_results.kind = "AIResponse"
       THEN flight_results.body.ai_flight_recommendation ELSE EmptyString,
   ai_hotel_recommendation |->
     IF hotel_results.kind = "AIResponse"
       THEN hotel_results.body.ai_hotel_recommendation ELSE EmptyString,
   itinerary |-> EmptyString]

\* The per-request variables right after gather(..., return_exceptions=True):
\* the defaults, overwritten from each result that is an AIResponse.
JoinLocals(flight_results, hotel_results) ==
  [flights |-> IF flight_results.kind = "AIResponse"
                 THEN flight_results.body.flights ELSE <<>>,
   hotels |-> IF hotel_results.kind = "AIResponse"
                THEN hotel_results.body.hotels ELSE <<>>,
   ai_flight_recommendation |->
     IF flight_results.kind = "AIResponse"
       THEN flight_results.body.ai_flight_recommendation
       ELSE CouldNotRetrieveFlights,
   ai_hotel_recommendation |->
     IF hotel_results.kind = "AIResponse"
       THEN hotel_results.body.ai_hotel_recommendation
       ELSE CouldNotRetrieveHotels,
   itinerary |-> EmptyString]

\* The results taken in the order the tasks finished (fin), as a loop over
\* asyncio.as_completed would.
GatherResults_CompletionOrder(outs, fin) ==
  [flight_results |-> outs[fin[1]], hotel_results |-> outs[fin[2]]]

\* flight_results, hotel_results = await asyncio.gather(flight_task,
\* hotel_task, return_exceptions=True): the results come in the order of the
\* arguments, whatever the order fin in which the tasks finished.
GatherResults(outs, fin) ==
  [flight_results |-> outs["flights"], hotel_results |-> outs["hotels"]]

NoLocals ==
  [flights |-> <<>>, hotels |-> <<>>, ai_flight_recommendation |-> Absent,
   ai_hotel_recommendation |-> Absent, itinerary |-> Absent]

\* The itinerary condition written with "or".
ShouldGenerateItinerary_Either(flights, hotels) ==
  flights # <<>> \/ hotels # <<>>

\* if flights and hotels:
ShouldGenerateItinerary(flights, hotels) == flights # <<>> /\ hotels # <<>>

\* JoinItineraryArgs with both dates of the call taken from return_date.
JoinItineraryArgs_ReturnDateTwice(v, freq, l) ==
  ItineraryArgs(freq.destination,
                Format(v, "flights", SearchList(l.flights)).text,
                Format(v, "hotels", SearchList(l.hotels)).text,
                freq.return_date, freq.return_date)

\* The texts handed to the itinerary synthesizer: the lists are formatted
\* again after the join.
JoinItineraryArgs(v, freq, l) ==
  ItineraryArgs(freq.destination,
                Format(v, "flights", SearchList(l.flights)).text,
                Format(v, "hotels", SearchList(l.hotels)).text,
                freq.outbound_date, freq.return_date)

\* return AIResponse(flights=..., hotels=..., ai_flight_recommendation=...,
\* ai_hotel_recommendation=..., itinerary=...): inside try/except Exception in
\* get_complete_travel_search, outside any try in
\* get_itinerary_from_conversation.
CombinedReturn(v, ep, l) ==
  LET made == AIResponse(v, l)
  IN  IF ~made.raised THEN Returned(made.body)
      ELSE IF ep = "from_conversation" THEN Unhandled
      ELSE HTTPException("Travel search error")

\* get_itinerary: return AIResponse(itinerary=itinerary) inside try/except.
ItineraryOnlyReturn(v, itinerary) ==
  LET made == AIResponse(v, [itinerary |-> itinerary])
  IN  IF made.raised THEN HTTPException("Itinerary generation error")
      ELSE Returned(made.body)

-----------------------------------------------------------------------------
(* The conversation workflow's own stages.                                 *)

\* What the parser crew's kickoff does: raises, yields an output that does
\* not validate as an ItineraryResponse, or yields a plan.
ParserOutcomes ==
  { [kind |-> "raise", plan |-> NoPlan], [kind |-> "invalid", plan |-> NoPlan] }
    \cup { [kind |-> "plan", plan |-> p] : p \in Plans }

\* CrewAIService.run_itinerary_task: kickoff is outside the try, so its
\* exception propagates; a validation failure returns None (NoPlan).
run_itinerary_task(out) ==
  IF out.kind = "raise" THEN [raised |-> TRUE, value |-> NoPlan]
  ELSE IF out.kind = "invalid" THEN [raised |-> FALSE, value |-> NoPlan]
  ELSE [raised |-> FALSE, value |-> out.plan]

\* flight_request = FlightRequest(origin=..., destination=...,
\*                                outbound_date=..., return_date=...)
DeriveFlightRequest(p) ==
  [origin |-> p.departure_flight_airport_code,
   destination |-> p.arrival_flight_airport_code,
   outbound_date |-> p.departure_date,
   return_date |-> p.arrival_date]

\* DeriveHotelRequest with check_in_date taken from arrival_date.
DeriveHotelRequest_ArrivalAsCheckIn(p) ==
  [location |-> p.arrival_location,
   check_in_date |-> p.arrival_date,
   check_out_date |-> p.arrival_date]

\* hotel_request = HotelRequest(location=..., check_in_date=...,
\*                              check_out_date=...)
DeriveHotelRequest(p) ==
  [location |-> p.arrival_location,
   check_in_date |-> p.departure_date,
   check_out_date |-> p.arrival_date]

\* DefaultHotelRequest with the stay starting and ending on the outbound
\* date.
DefaultHotelRequest_OutboundAsCheckOut(freq, hreq) ==
  IF hreq = NoHotelRequest
    THEN [location |-> freq.destination,
          check_in_date |-> freq.outbound_date,
          check_out_date |-> freq.outbound_date]
    ELSE hreq

\* hotel_request defaulted from the flight request when it is None.
DefaultHotelRequest(freq, hreq) ==
  IF hreq = NoHotelRequest
    THEN [location |-> freq.destination,
          check_in_date |-> freq.outbound_date,
          check_out_date |-> freq.return_date]
    ELSE hreq

\* What generate_flight_recommendation / generate_hotel_recommendation do:
\* the kickoff raises (nothing catches it) or crew_results.pydantic is
\* returned (a listing list or None).
StageOutcomes == {"raise", "none", "listing"}

NoFlightRequest ==
  [origin |-> "None", destination |-> "None", outbound_date |-> "None",
   return_date |-> "None"]

-----------------------------------------------------------------------------
(* The chat store of app.services.chat.                                    *)

MaxChats == 2
MaxMessages == 12
MaxInFlight == 2

\* The chat id the store is created with; uuid4 ids are 1..MaxChats.
SeedChatId == 0
ChatIds == SeedChatId..MaxChats

SystemMessage == [role |-> "system", content |-> "helpful travel assistant"]
HumanMessage(content) == [role |-> "human", content |-> content]
AIMessage(content) == [role |-> "ai", content |-> content]

\* database = ChatsHistory(chats_history={"e1a1a51f-...": [...]})
SeedDatabase ==
  [id \in {SeedChatId} |->
     <<SystemMessage, HumanMessage("prompt"), AIMessage("reply"),
       HumanMessage("more coffee?"), AIMessage("reply")>>]

NoChatReply == [kind |-> "none", chat_id |-> SeedChatId, messages |-> <<>>]

\* The response dict of start_chat and keep_chat.
ChatResponse(id, message) ==
  [kind |-> "response", chat_id |-> id, messages |-> <<message>>]

\* An exception leaving a chat call: KeyError for an unknown chat id, or
\* whatever self.llm.invoke raised.
ChatRaises(kind, id) == [kind |-> kind, chat_id |-> id, messages |-> <<>>]

\* database.chats_history[id] = messages
StoreSet(db, id, messages) ==
  [i \in DOMAIN db \cup {id} |-> IF i = id THEN messages ELSE db[i]]

\* database.chats_history[id].append(message)
StoreAppend(db, id, message) == [db EXCEPT ![id] = Append(@, message)]

-----------------------------------------------------------------------------
(* State.                                                                  *)

VARIABLES
  variant,            \* which application serves the request
  endpoint,           \* the route of the request
  flight_request,     \* FlightRequest of the handler (NoFlightRequest: none)
  hotel_request,      \* HotelRequest of the handler (NoHotelRequest: None)
  itinerary_request,  \* body of /generate_itinerary/
  plan,               \* itinerary_json of the conversation handler
  pc,                 \* where the route handler is
  bpc,                \* per domain: where the branch coroutine is
  raw,                \* per domain: what the provider answered
  found,              \* per domain: flights / hotels of the branch
  text,               \* per domain: flights_text / hotels_text of the branch
  outcome,            \* per domain: what the branch returned or raised
  issued,             \* calls issued so far, per external call
  stage,              \* results of the per-domain recommendation stages
  locals,             \* flights, hotels, recommendations, itinerary at the join
  joined,             \* gather has returned
  itin,               \* the generate_itinerary call of this request
  response,           \* what the client receives
  request,            \* the request body as the client sent it
  branch_request,     \* per domain: the request its handler was called with
  env,                \* what each collaborator call of this request did
  finished,           \* the domains in the order their branches finished
  run,                \* 1: first time the request is served, 2: second time
  first,              \* answers and response of the first time
  database,           \* chat store: chat id -> list of messages
  chat_calls,         \* chat calls waiting for the language model
  chat_reply          \* what the last finished chat call returned or raised

vars ==
  <<variant, endpoint, flight_request, hotel_request, itinerary_request, plan,
    pc, bpc, raw, found, text, outcome, issued, stage, locals, joined, itin,
    response, request, branch_request, env, finished, run, first, database,
    chat_calls, chat_reply>>

Calls ==
  {"parser", "flight_stage", "hotel_stage", "search_flights", "search_hotels",
   "recommend_flights", "recommend_hotels", "itinerary_synthesizer",
   "itinerary_backend"}

SearchCall(d) == IF d = "flights" THEN "search_flights" ELSE "search_hotels"
RecommendCall(d) ==
  IF d = "flights" THEN "recommend_flights" ELSE "recommend_hotels"

NoItin == [args |-> NoItineraryArgs, days |-> 0]

NoBranchRequest == [flights |-> NoFlightRequest, hotels |-> NoHotelRequest]

\* No collaborator has been called yet.
NoEnv ==
  [parser |-> [kind |-> "not_called", plan |-> NoPlan],
   flight_stage |-> "not_called", hotel_stage |-> "not_called",
   recommend_flights |-> "not_called", recommend_hotels |-> "not_called",
   itinerary_backend |-> "not_called"]

NoFirst ==
  [raw |-> [d \in Domains |-> NoRaw], env |-> NoEnv, response |-> NoOutcome]

\* What the provider can answer to the search of domain d: anything the
\* first time, and the same answer again when the request is repeated.
ProviderAnswers(d) == IF run = 1 THEN RawOutcomes ELSE {first.raw[d]}

\* What the collaborator behind call can do, out of all: anything the first
\* time, and the same again when the request is repeated.
Answers(call, all) == IF run = 1 THEN all ELSE {first.env[call]}

Init ==
  /\ variant \in Variants
  /\ endpoint \in EndpointsOf(variant)
  /\ flight_request \in
       IF endpoint \in {"search_flights", "complete_search"}
         THEN FlightRequests ELSE {NoFlightRequest}
  /\ hotel_request \in
       IF endpoint = "search_hotels" THEN HotelRequests
       ELSE IF endpoint = "complete_search"
         THEN HotelRequests \cup {NoHotelRequest}
       ELSE {NoHotelRequest}
  /\ itinerary_request \in
       IF endpoint = "generate_itinerary" THEN ItineraryRequests
       ELSE {NoItineraryRequest}
  /\ plan = NoPlan
  /\ pc = "received"
  /\ bpc = [d \in Domains |-> "none"]
  /\ raw = [d \in Domains |-> NoRaw]
  /\ found = [d \in Domains |-> NoSearchResult]
  /\ text = [d \in Domains |-> EmptyString]
  /\ outcome = [d \in Domains |-> NoOutcome]
  /\ issued = [c \in Calls |-> FALSE]
  /\ stage = [d \in Domains |-> "not_run"]
  /\ locals = NoLocals
  /\ joined = FALSE
  /\ itin = NoItin
  /\ response = NoOutcome
  /\ request = [flight |-> flight_request, hotel |-> hotel_request,
                itinerary |-> itinerary_request]
  /\ branch_request = NoBranchRequest
  /\ env = NoEnv
  /\ finished = <<>>
  /\ run = 1
  /\ first = NoFirst
  /\ database = SeedDatabase
  /\ chat_calls = {}
  /\ chat_reply = NoChatReply

-----------------------------------------------------------------------------
(* Single-domain handlers and branch tasks.                                *)

DomainOf(ep) == IF ep = "search_flights" THEN "flights" ELSE "hotels"

\* SingleDomainStart that starts the recommendation call together with the
\* search call.
SingleDomainStart_RecommendAtOnce ==
  /\ pc = "received"
  /\ endpoint \in {"search_flights", "search_hotels"}
  /\ pc' = "inline"
  /\ bpc' = [bpc EXCEPT ![DomainOf(endpoint)] = "searching"]
  /\ issued' = [issued EXCEPT ![SearchCall(DomainOf(endpoint))] = TRUE,
                              ![RecommendCall(DomainOf(endpoint))] = TRUE]
  /\ branch_request' =
       [branch_request EXCEPT ![DomainOf(endpoint)] =
          IF endpoint = "search_flights" THEN flight_request
          ELSE hotel_request]
  /\ UNCHANGED <<env, finished>>
  /\ UNCHANGED <<request, run, first, database, chat_calls, chat_reply>>
  /\ UNCHANGED <<variant, endpoint, flight_request, hotel_request,
                 itinerary_request, plan, raw, found, text, outcome, stage,
                 locals, joined, itin, response>>

\* POST /search_flights/ or /search_hotels/: the handler runs up to
\* await serp_service.search_...(request), which issues the search call.
SingleDomainStart ==
  /\ pc = "received"
  /\ endpoint \in {"search_flights", "search_hotels"}
  /\ pc' = "inline"
  /\ bpc' = [bpc EXCEPT ![DomainOf(endpoint)] = "searching"]
  /\ issued' = [issued EXCEPT ![SearchCall(DomainOf(endpoint))] = TRUE]
  /\ branch_request' =
       [branch_request EXCEPT ![DomainOf(endpoint)] =
          IF endpoint = "search_flights" THEN flight_request
          ELSE hotel_request]
  /\ UNCHANGED <<env, finished>>
  /\ UNCHANGED <<request, run, first, database, chat_calls, chat_reply>>
  /\ UNCHANGED <<variant, endpoint, flight_request, hotel_request,
                 itinerary_request, plan, raw, found, text, outcome, stage,
                 locals, joined, itin, response>>

\* First step of a task made by asyncio.create_task: it runs once the
\* handler is suspended in gather, in the order the tasks were created, up
\* to the search call.
BranchStart(d) ==
  /\ pc = "gather"
  /\ bpc[d] = "scheduled"
  /\ d = "hotels" => bpc["flights"] # "scheduled"
  /\ bpc' = [bpc EXCEPT ![d] = "searching"]
  /\ issued' = [issued EXCEPT ![SearchCall(d)] = TRUE]
  /\ UNCHANGED <<branch_request, env, finished>>
  /\ UNCHANGED <<request, run, first, database, chat_calls, chat_reply>>
  /\ UNCHANGED <<variant, endpoint, flight_request, hotel_request,
                 itinerary_request, plan, pc, raw, found, text, outcome,
                 stage, locals, joined, itin, response>>

\* The search call returns or raises; the handler runs to its next
\* suspension (the recommendation call) or to its end.
SearchReturns(d) ==
  /\ bpc[d] = "searching"
  /\ \E rawo \in ProviderAnswers(d) :
       LET r == AfterSearch(variant, d, rawo)
       IN  /\ raw' = [raw EXCEPT ![d] = rawo]
           /\ found' = [found EXCEPT ![d] = r.found]
           /\ text' = [text EXCEPT ![d] = r.text]
           /\ outcome' = [outcome EXCEPT ![d] = r.outcome]
           /\ bpc' = [bpc EXCEPT ![d] = r.next]
           /\ issued' = [issued EXCEPT ![RecommendCall(d)] =
                           @ \/ r.next = "recommending"]
           /\ finished' = IF r.next = "done" THEN Append(finished, d)
                          ELSE finished
  /\ UNCHANGED <<branch_request, env>>
  /\ UNCHANGED <<request, run, first, database, chat_calls, chat_reply>>
  /\ UNCHANGED <<variant, endpoint, flight_request, hotel_request,
                 itinerary_request, plan, pc, stage, locals, joined, itin,
                 response>>

\* RecommendationReturns in which the branch itself stores its listings and
\* its recommendation in the handler's variables.
RecommendationReturns_WritesShared(d) ==
  /\ bpc[d] = "recommending"
  /\ \E backend \in Answers(RecommendCall(d), BackendOutcomes) :
       /\ env' = [env EXCEPT ![RecommendCall(d)] = backend]
       /\ outcome' = [outcome EXCEPT ![d] =
                        AfterRecommendation(variant, d, found[d], text[d],
                                            backend)]
  /\ locals' = IF d = "flights"
                 THEN [locals EXCEPT !.flights = found[d].items,
                         !.ai_flight_recommendation = text[d]]
                 ELSE [locals EXCEPT !.hotels = found[d].items,
                         !.ai_hotel_recommendation = text[d]]
  /\ bpc' = [bpc EXCEPT ![d] = "done"]
  /\ finished' = Append(finished, d)
  /\ UNCHANGED branch_request
  /\ UNCHANGED <<request, run, first, database, chat_calls, chat_reply>>
  /\ UNCHANGED <<variant, endpoint, flight_request, hotel_request,
                 itinerary_request, plan, pc, raw, found, text, issued, stage,
                 joined, itin, response>>

\* get_ai_recommendation returns; the handler builds its AIResponse.
RecommendationReturns(d) ==
  /\ bpc[d] = "recommending"
  /\ \E backend \in Answers(RecommendCall(d), BackendOutcomes) :
       /\ env' = [env EXCEPT ![RecommendCall(d)] = backend]
       /\ outcome' = [outcome EXCEPT ![d] =
                        AfterRecommendation(variant, d, found[d], text[d],
                                            backend)]
  /\ bpc' = [bpc EXCEPT ![d] = "done"]
  /\ finished' = Append(finished, d)
  /\ UNCHANGED branch_request
  /\ UNCHANGED <<request, run, first, database, chat_calls, chat_reply>>
  /\ UNCHANGED <<variant, endpoint, flight_request, hotel_request,
                 itinerary_request, plan, pc, raw, found, text, issued, stage,
                 locals, joined, itin, response>>

\* A single-domain request ends with what its handler returned or raised.
SingleDomainRespond ==
  /\ pc = "inline"
  /\ bpc[DomainOf(endpoint)] = "done"
  /\ response' = outcome[DomainOf(endpoint)]
  /\ pc' = "responded"
  /\ UNCHANGED <<branch_request, env, finished>>
  /\ UNCHANGED <<request, run, first, database, chat_calls, chat_reply>>
  /\ UNCHANGED <<variant, endpoint, flight_request, hotel_request,
                 itinerary_request, plan, bpc, raw, found, text, outcome,
                 issued, stage, locals, joined, itin>>

-----------------------------------------------------------------------------
(* Fork and join of the combined workflows.                                *)

\* POST /complete_search/: default the hotel request.
CompleteSearchStart ==
  /\ pc = "received"
  /\ endpoint = "complete_search"
  /\ hotel_request' = DefaultHotelRequest(flight_request, hotel_request)
  /\ pc' = "fork"
  /\ UNCHANGED <<branch_request, env, finished>>
  /\ UNCHANGED <<request, run, first, database, chat_calls, chat_reply>>
  /\ UNCHANGED <<variant, endpoint, flight_request, itinerary_request, plan,
                 bpc, raw, found, text, outcome, issued, stage, locals, joined,
                 itin, response>>

\* CreateFlightTask followed at once by an await of the flight task: the
\* handler is suspended before the hotel task exists.
CreateFlightTask_ThenAwait ==
  /\ pc = "fork"
  /\ bpc' = [bpc EXCEPT !["flights"] = "scheduled"]
  /\ pc' = "gather"
  /\ branch_request' = [branch_request EXCEPT !["flights"] = flight_request]
  /\ UNCHANGED <<env, finished>>
  /\ UNCHANGED <<request, run, first, database, chat_calls, chat_reply>>
  /\ UNCHANGED <<variant, endpoint, flight_request, hotel_request,
                 itinerary_request, plan, raw, found, text, outcome, issued,
                 stage, locals, joined, itin, response>>

\* flight_task = asyncio.create_task(get_flight_recommendations(...))
CreateFlightTask ==
  /\ pc = "fork"
  /\ bpc' = [bpc EXCEPT !["flights"] = "scheduled"]
  /\ pc' = "flight_task_created"
  /\ branch_request' = [branch_request EXCEPT !["flights"] = flight_request]
  /\ UNCHANGED <<env, finished>>
  /\ UNCHANGED <<request, run, first, database, chat_calls, chat_reply>>
  /\ UNCHANGED <<variant, endpoint, flight_request, hotel_request,
                 itinerary_request, plan, raw, found, text, outcome, issued,
                 stage, locals, joined, itin, response>>

\* hotel_task = asyncio.create_task(get_hotel_recommendations(...))
CreateHotelTask ==
  /\ pc = "flight_task_created"
  /\ bpc' = [bpc EXCEPT !["hotels"] = "scheduled"]
  /\ pc' = "hotel_task_created"
  /\ branch_request' = [branch_request EXCEPT !["hotels"] = hotel_request]
  /\ UNCHANGED <<env, finished>>
  /\ UNCHANGED <<request, run, first, database, chat_calls, chat_reply>>
  /\ UNCHANGED <<variant, endpoint, flight_request, hotel_request,
                 itinerary_request, plan, raw, found, text, outcome, issued,
                 stage, locals, joined, itin, response>>

\* await asyncio.gather(flight_task, hotel_task, return_exceptions=True):
\* the handler is suspended until both tasks are done.
Gather ==
  /\ pc = "hotel_task_created"
  /\ pc' = "gather"
  /\ UNCHANGED <<branch_request, env, finished>>
  /\ UNCHANGED <<request, run, first, database, chat_calls, chat_reply>>
  /\ UNCHANGED <<variant, endpoint, flight_request, hotel_request,
                 itinerary_request, plan, bpc, raw, found, text, outcome,
                 issued, stage, locals, joined, itin, response>>

\* The handler's return, per route.
HandlerReturn(v, ep, l) ==
  IF ep = "generate_itinerary" THEN ItineraryOnlyReturn(v, l.itinerary)
  ELSE CombinedReturn(v, ep, l)

\* The call crew_service.generate_itinerary(...) with args, made with the
\* per-request variables l: either the backend is now awaited, or the call
\* has returned the apology string and the handler returns.
CallGenerateItinerary(args, l) ==
  LET prep == GenerateItineraryPrepare(variant, args)
  IN  /\ itin' = [args |-> args, days |-> prep.days]
      /\ issued' = [issued EXCEPT !["itinerary_synthesizer"] = TRUE,
                                  !["itinerary_backend"] = prep.call]
      /\ IF prep.call
           THEN /\ locals' = l
                /\ pc' = "itinerary"
                /\ UNCHANGED response
           ELSE /\ locals' = [l EXCEPT !.itinerary = ItineraryApology]
                /\ response' = HandlerReturn(variant, endpoint, locals')
                /\ pc' = "responded"

\* Join with flights and hotels kept in lists that outlive the request: the
\* listings of the request served before are still in them.
Join_SharedLists ==
  /\ pc = "gather"
  /\ \A d \in Domains : bpc[d] = "done"
  /\ joined' = TRUE
  /\ LET g == GatherResults(outcome, finished)
         j == JoinLocals(g.flight_results, g.hotel_results)
         l == [j EXCEPT !.flights = first.response.body.flights \o @,
                        !.hotels = first.response.body.hotels \o @]
     IN  IF ShouldGenerateItinerary(l.flights, l.hotels)
           THEN CallGenerateItinerary(
                  JoinItineraryArgs(variant, flight_request, l), l)
           ELSE /\ locals' = l
                /\ response' = HandlerReturn(variant, endpoint, l)
                /\ pc' = "responded"
                /\ UNCHANGED <<itin, issued>>
  /\ UNCHANGED <<branch_request, env, finished>>
  /\ UNCHANGED <<request, run, first, database, chat_calls, chat_reply>>
  /\ UNCHANGED <<variant, endpoint, flight_request, hotel_request,
                 itinerary_request, plan, bpc, raw, found, text, outcome,
                 stage>>

\* Join that goes on as soon as one of the two tasks is done, as
\* asyncio.wait(..., return_when=FIRST_COMPLETED) would.
Join_FirstCompleted ==
  /\ pc = "gather"
  /\ \E d \in Domains : bpc[d] = "done"
  /\ joined' = TRUE
  /\ LET g == GatherResults(outcome, finished)
         l == JoinLocals(g.flight_results, g.hotel_results)
     IN  IF ShouldGenerateItinerary(l.flights, l.hotels)
           THEN CallGenerateItinerary(
                  JoinItineraryArgs(variant, flight_request, l), l)
           ELSE /\ locals' = l
                /\ response' = HandlerReturn(variant, endpoint, l)
                /\ pc' = "responded"
                /\ UNCHANGED <<itin, issued>>
  /\ UNCHANGED <<branch_request, env, finished>>
  /\ UNCHANGED <<request, run, first, database, chat_calls, chat_reply>>
  /\ UNCHANGED <<variant, endpoint, flight_request, hotel_request,
                 itinerary_request, plan, bpc, raw, found, text, outcome,
                 stage>>

\* gather returns: fill the per-request variables, then either call the
\* itinerary synthesizer or return.
Join ==
  /\ pc = "gather"
  /\ \A d \in Domains : bpc[d] = "done"
  /\ joined' = TRUE
  /\ LET g == GatherResults(outcome, finished)
         l == JoinLocals(g.flight_results, g.hotel_results)
     IN  IF ShouldGenerateItinerary(l.flights, l.hotels)
           THEN CallGenerateItinerary(
                  JoinItineraryArgs(variant, flight_request, l), l)
           ELSE /\ locals' = l
                /\ response' = HandlerReturn(variant, endpoint, l)
                /\ pc' = "responded"
                /\ UNCHANGED <<itin, issued>>
  /\ UNCHANGED <<branch_request, env, finished>>
  /\ UNCHANGED <<request, run, first, database, chat_calls, chat_reply>>
  /\ UNCHANGED <<variant, endpoint, flight_request, hotel_request,
                 itinerary_request, plan, bpc, raw, found, text, outcome,
                 stage>>

\* POST /generate_itinerary/: the synthesizer is called with the caller's
\* texts and dates.
ItineraryOnlyStart ==
  /\ pc = "received"
  /\ endpoint = "generate_itinerary"
  /\ CallGenerateItinerary(
       ItineraryArgs(itinerary_request.destination, itinerary_request.flights,
                     itinerary_request.hotels, itinerary_request.check_in_date,
                     itinerary_request.check_out_date),
       [NoLocals EXCEPT !.itinerary = EmptyString])
  /\ UNCHANGED <<branch_request, env, finished>>
  /\ UNCHANGED <<request, run, first, database, chat_calls, chat_reply>>
  /\ UNCHANGED <<variant, endpoint, flight_request, hotel_request,
                 itinerary_request, plan, bpc, raw, found, text, outcome,
                 stage, joined>>

\* The itinerary backend answers or raises; the handler returns.
ItineraryReturns ==
  /\ pc = "itinerary"
  /\ \E backend \in Answers("itinerary_backend", BackendOutcomes) :
       /\ env' = [env EXCEPT !["itinerary_backend"] = backend]
       /\ locals' = [locals EXCEPT !.itinerary =
                       GenerateItineraryFinish(variant, itin.args, itin.days,
                                               backend)]
  /\ response' = HandlerReturn(variant, endpoint, locals')
  /\ pc' = "responded"
  /\ UNCHANGED <<branch_request, finished>>
  /\ UNCHANGED <<request, run, first, database, chat_calls, chat_reply>>
  /\ UNCHANGED <<variant, endpoint, flight_request, hotel_request,
                 itinerary_request, plan, bpc, raw, found, text, outcome,
                 issued, stage, joined, itin>>

-----------------------------------------------------------------------------
(* POST /generate_itinerary_from_conversation/.                            *)

\* create_itinerary_task, then await run_itinerary_task(task).
ParseStart ==
  /\ pc = "received"
  /\ endpoint = "from_conversation"
  /\ issued' = [issued EXCEPT !["parser"] = TRUE]
  /\ pc' = "parsing"
  /\ UNCHANGED <<branch_request, env, finished>>
  /\ UNCHANGED <<request, run, first, database, chat_calls, chat_reply>>
  /\ UNCHANGED <<variant, endpoint, flight_request, hotel_request,
                 itinerary_request, plan, bpc, raw, found, text, outcome,
                 stage, locals, joined, itin, response>>

\* The None test left out.
PlanIsNone_Never(value) == FALSE

\* if itinerary_json is None:
PlanIsNone(value) == value = NoPlan

\* The parser returns: fail on None, otherwise derive both requests and
\* await generate_flight_recommendation(flight_request).
ParseReturns ==
  /\ pc = "parsing"
  /\ \E out \in Answers("parser", ParserOutcomes) :
       LET r == run_itinerary_task(out)
       IN  /\ env' = [env EXCEPT !["parser"] = out]
           /\ IF r.raised \/ PlanIsNone(r.value)
                THEN /\ response' =
                          IF r.raised THEN Unhandled
                          ELSE HTTPException("Unable to generate itinerary")
                     /\ pc' = "responded"
                     /\ UNCHANGED <<plan, flight_request, hotel_request,
                                    issued>>
                ELSE /\ plan' = r.value
                     /\ flight_request' = DeriveFlightRequest(r.value)
                     /\ hotel_request' = DeriveHotelRequest(r.value)
                     /\ issued' = [issued EXCEPT !["flight_stage"] = TRUE]
                     /\ pc' = "flight_stage"
                     /\ UNCHANGED response
  /\ UNCHANGED <<branch_request, finished>>
  /\ UNCHANGED <<request, run, first, database, chat_calls, chat_reply>>
  /\ UNCHANGED <<variant, endpoint, itinerary_request, bpc, raw, found, text,
                 outcome, stage, locals, joined, itin>>

\* FlightStageReturns with the stage's exception caught: the handler goes on
\* to the hotel stage as if the stage had returned nothing.
FlightStageReturns_Caught ==
  /\ pc = "flight_stage"
  /\ \E o \in Answers("flight_stage", StageOutcomes) :
       /\ env' = [env EXCEPT !["flight_stage"] = o]
       /\ stage' = [stage EXCEPT !["flights"] =
                      IF o = "raise" THEN "none" ELSE o]
  /\ issued' = [issued EXCEPT !["hotel_stage"] = TRUE]
  /\ pc' = "hotel_stage"
  /\ UNCHANGED response
  /\ UNCHANGED <<branch_request, finished>>
  /\ UNCHANGED <<request, run, first, database, chat_calls, chat_reply>>
  /\ UNCHANGED <<variant, endpoint, flight_request, hotel_request,
                 itinerary_request, plan, bpc, raw, found, text, outcome,
                 locals, joined, itin>>

\* generate_flight_recommendation returns or raises; then
\* await generate_hotel_recommendation(hotel_request).
FlightStageReturns ==
  /\ pc = "flight_stage"
  /\ \E o \in Answers("flight_stage", StageOutcomes) :
       /\ env' = [env EXCEPT !["flight_stage"] = o]
       /\ IF o = "raise"
            THEN /\ response' = Unhandled
                 /\ pc' = "responded"
                 /\ UNCHANGED <<stage, issued>>
            ELSE /\ stage' = [stage EXCEPT !["flights"] = o]
                 /\ issued' = [issued EXCEPT !["hotel_stage"] = TRUE]
                 /\ pc' = "hotel_stage"
                 /\ UNCHANGED response
  /\ UNCHANGED <<branch_request, finished>>
  /\ UNCHANGED <<request, run, first, database, chat_calls, chat_reply>>
  /\ UNCHANGED <<variant, endpoint, flight_request, hotel_request,
                 itinerary_request, plan, bpc, raw, found, text, outcome,
                 locals, joined, itin>>

\* generate_hotel_recommendation returns or raises; the tasks come next.
HotelStageReturns ==
  /\ pc = "hotel_stage"
  /\ \E o \in Answers("hotel_stage", StageOutcomes) :
       /\ env' = [env EXCEPT !["hotel_stage"] = o]
       /\ IF o = "raise"
            THEN /\ response' = Unhandled
                 /\ pc' = "responded"
                 /\ UNCHANGED stage
            ELSE /\ stage' = [stage EXCEPT !["hotels"] = o]
                 /\ pc' = "fork"
                 /\ UNCHANGED response
  /\ UNCHANGED <<branch_request, finished>>
  /\ UNCHANGED <<request, run, first, database, chat_calls, chat_reply>>
  /\ UNCHANGED <<variant, endpoint, flight_request, hotel_request,
                 itinerary_request, plan, bpc, raw, found, text, outcome,
                 issued, locals, joined, itin>>

-----------------------------------------------------------------------------

Next ==
  \/ SingleDomainStart
  \/ \E d \in Domains : BranchStart(d)
  \/ \E d \in Domains : SearchReturns(d)
  \/ \E d \in Domains : RecommendationReturns(d)
  \/ SingleDomainRespond
  \/ CompleteSearchStart
  \/ CreateFlightTask
  \/ CreateHotelTask
  \/ Gather
  \/ Join
  \/ ItineraryOnlyStart
  \/ ItineraryReturns
  \/ ParseStart
  \/ ParseReturns
  \/ FlightStageReturns
  \/ HotelStageReturns

Spec == Init /\ [][Next]_vars

\* Every external call returns or raises in the end, and the event loop runs
\* whatever is ready to run: a step that can be taken is taken.
SpecLive == Spec /\ WF_vars(Next)

\* The client sends the same request again after the response: the handler
\* is called anew, with new service objects (Depends()) and new local
\* variables; the provider and the synthesizers answer as they did before.
Replay ==
  /\ pc = "responded"
  /\ run = 1
  /\ run' = 2
  /\ first' = [raw |-> raw, env |-> env, response |-> response]
  /\ flight_request' = request.flight
  /\ hotel_request' = request.hotel
  /\ plan' = NoPlan
  /\ pc' = "received"
  /\ bpc' = [d \in Domains |-> "none"]
  /\ raw' = [d \in Domains |-> NoRaw]
  /\ found' = [d \in Domains |-> NoSearchResult]
  /\ text' = [d \in Domains |-> EmptyString]
  /\ outcome' = [d \in Domains |-> NoOutcome]
  /\ issued' = [c \in Calls |-> FALSE]
  /\ stage' = [d \in Domains |-> "not_run"]
  /\ locals' = NoLocals
  /\ joined' = FALSE
  /\ itin' = NoItin
  /\ response' = NoOutcome
  /\ branch_request' = NoBranchRequest
  /\ env' = NoEnv
  /\ finished' = <<>>
  /\ UNCHANGED <<variant, endpoint, request, itinerary_request>>
  /\ UNCHANGED <<database, chat_calls, chat_reply>>

NextReplay == Next \/ Replay

-----------------------------------------------------------------------------
(* ChatService: each call runs up to self.llm.invoke(...), and from its    *)
(* return or exception to its end.                                         *)

ChatFrame ==
  UNCHANGED <<variant, endpoint, flight_request, hotel_request,
              itinerary_request, plan, pc, bpc, raw, found, text, outcome,
              issued, stage, locals, joined, itin, response, request,
              branch_request, env, finished, run, first>>

\* The calls that wait for the language model: start_chat and keep_chat.
ChatCalls == [op : {"start_chat", "keep_chat"}, chat_id : ChatIds]

\* Number of messages in the store.
StoredMessages(db) ==
  LET F[i \in (SeedChatId - 1)..MaxChats] ==
        IF i < SeedChatId THEN 0
        ELSE F[i - 1] + (IF i \in DOMAIN db THEN Len(db[i]) ELSE 0)
  IN  F[MaxChats]

\* The store, with the answers the calls in flight may still append, has
\* room for n more messages (the bound MaxMessages on the whole store).
HasRoom(n) ==
  StoredMessages(database) + Cardinality(chat_calls) + n <= MaxMessages

\* start_chat with the new chat id always the seeded one.
StartChat_SeedId ==
  /\ Cardinality(chat_calls) < MaxInFlight
  /\ HasRoom(3)
  /\ database' =
       StoreSet(database, SeedChatId, <<SystemMessage, HumanMessage("prompt")>>)
  /\ chat_calls' =
       chat_calls \cup {[op |-> "start_chat", chat_id |-> SeedChatId]}
  /\ UNCHANGED chat_reply
  /\ ChatFrame

\* str(uuid.uuid4()): a chat id that is not in the store.  New ids are
\* interchangeable, so the least unused one stands for any of them.
NewChatIds(db) ==
  {id \in 1..MaxChats : id \notin DOMAIN db /\ (1..(id - 1)) \subseteq DOMAIN db}

\* start_chat up to the model call: the new chat id gets the system message
\* and the prompt.
StartChat ==
  /\ Cardinality(chat_calls) < MaxInFlight
  /\ HasRoom(3)
  /\ \E new_chat_id \in NewChatIds(database) :
       /\ database' =
            StoreSet(database, new_chat_id,
                     <<SystemMessage, HumanMessage("prompt")>>)
       /\ chat_calls' =
            chat_calls \cup {[op |-> "start_chat", chat_id |-> new_chat_id]}
  /\ UNCHANGED chat_reply
  /\ ChatFrame

\* keep_chat up to the model call: KeyError for an unknown chat id,
\* otherwise the human message is appended.
KeepChat(chat_id) ==
  /\ Cardinality(chat_calls) < MaxInFlight
  /\ [op |-> "keep_chat", chat_id |-> chat_id] \notin chat_calls
  /\ IF chat_id \notin DOMAIN database
       THEN /\ chat_reply' = ChatRaises("KeyError", chat_id)
            /\ UNCHANGED <<database, chat_calls>>
       ELSE /\ HasRoom(2)
            /\ database' =
                 StoreAppend(database, chat_id, HumanMessage("more coffee?"))
            /\ chat_calls' =
                 chat_calls \cup {[op |-> "keep_chat", chat_id |-> chat_id]}
            /\ UNCHANGED chat_reply
  /\ ChatFrame

\* self.llm.invoke returns or raises in start_chat or keep_chat: the
\* answer is appended to the chat and returned, or the exception leaves the
\* call with the chat as it is.
ChatCallReturns(c) ==
  /\ c \in chat_calls
  /\ chat_calls' = chat_calls \ {c}
  /\ \E llm \in BackendOutcomes :
       IF llm = "ok"
         THEN /\ database' = StoreAppend(database, c.chat_id, AIMessage("reply"))
              /\ chat_reply' = ChatResponse(c.chat_id, AIMessage("reply"))
         ELSE /\ chat_reply' = ChatRaises("raise", c.chat_id)
              /\ UNCHANGED database
  /\ ChatFrame

\* get_chat: return database.chats_history[chat_id].
GetChat(chat_id) ==
  /\ chat_reply' =
       IF chat_id \in DOMAIN database
         THEN [kind |-> "history", chat_id |-> chat_id,
               messages |-> database[chat_id]]
         ELSE ChatRaises("KeyError", chat_id)
  /\ chat_reply' # chat_reply
  /\ UNCHANGED <<database, chat_calls>>
  /\ ChatFrame

InitChat == Init /\ variant = "app" /\ endpoint = "from_conversation"

NextChat ==
  \/ StartChat
  \/ \E chat_id \in ChatIds : KeepChat(chat_id)
  \/ \E c \in ChatCalls : ChatCallReturns(c)
  \/ \E chat_id \in ChatIds : GetChat(chat_id)

\* The chat calls alone, on the store as the process starts with it.
SpecChat == InitChat /\ [][NextChat]_vars

\* A request served, and then served once more.
SpecReplay == Init /\ [][NextReplay]_vars

-----------------------------------------------------------------------------
(* Vocabulary of the properties.                                           *)

Combined == endpoint \in {"complete_search", "from_conversation"}
SingleDomain == endpoint \in {"search_flights", "search_hotels"}
Responded == pc = "responded"
Success == response.kind = "AIResponse" /\ response.status = HTTP_200
ErrorResponse == response.kind # "AIResponse" /\ response.status = HTTP_500

\* The branch of domain d has finished by raising.
BranchFailed(d) == bpc[d] = "done" /\ outcome[d].kind # "AIResponse"
\* The branch of domain d has finished by returning its AIResponse.
BranchSucceeded(d) == bpc[d] = "done" /\ outcome[d].kind = "AIResponse"

ListOf(body, d) == IF d = "flights" THEN body.flights ELSE body.hotels
RecOf(body, d) ==
  IF d = "flights" THEN body.ai_flight_recommendation
  ELSE body.ai_hotel_recommendation

Other(d) == IF d = "flights" THEN "hotels" ELSE "flights"

-----------------------------------------------------------------------------
(* C1..C10                                                                 *)

\* C1: a combined request (POST /complete_search/) whose two branches both
\* raised ends in a success response with empty flights and hotels, both
\* placeholder recommendations and the empty itinerary.
C1_BothBranchesFail ==
  (/\ endpoint = "complete_search" /\ Responded
   /\ BranchFailed("flights") /\ BranchFailed("hotels"))
    => /\ Success
       /\ response.body.flights = <<>>
       /\ response.body.hotels = <<>>
       /\ response.body.ai_flight_recommendation = CouldNotRetrieveFlights
       /\ response.body.ai_hotel_recommendation = CouldNotRetrieveHotels
       /\ response.body.itinerary = EmptyString

\* C2: a combined request in which exactly one branch raised ends in a
\* success response with the empty itinerary, the itinerary synthesizer was
\* never called, the failed domain has the empty list and its placeholder,
\* and the other domain has exactly the list and the recommendation its
\* branch returned.
C2_ExactlyOneBranchFails ==
  \A d \in Domains :
    (/\ Combined /\ Responded
     /\ BranchFailed(d) /\ BranchSucceeded(Other(d)))
      => /\ Success
         /\ response.body.itinerary = EmptyString
         /\ ~issued["itinerary_synthesizer"]
         /\ ListOf(response.body, d) = <<>>
         /\ RecOf(response.body, d) = Placeholder(d)
         /\ ListOf(response.body, Other(d)) = ListOf(outcome[Other(d)].body, Other(d))
         /\ RecOf(response.body, Other(d)) = RecOf(outcome[Other(d)].body, Other(d))
         /\ ListOf(response.body, Other(d)) = found[Other(d)].items

C2_Witness ==
  /\ endpoint = "complete_search" /\ Responded
  /\ BranchFailed("flights") /\ BranchSucceeded("hotels")
  /\ response.body.hotels # <<>>

\* C3: a single-domain request whose search met a provider error (the
\* gateway's {error: ...} value) or a transport exception ends in a 500
\* response, never in a success response.
C3_SingleDomainSearchFailure ==
  \A d \in Domains :
    (/\ SingleDomain /\ Responded /\ d = DomainOf(endpoint)
     /\ raw[d].kind \in {"raise", "error"})
      => ErrorResponse /\ ~Success

C3_Witness ==
  /\ endpoint = "search_flights" /\ Responded
  /\ raw["flights"].kind = "error"
  /\ found["flights"] = SearchError
  /\ response.status = HTTP_500

\* C4: in a combined request both branch tasks exist whenever the handler is
\* suspended in the join, no branch runs before both exist, and whenever the
\* hotel search is in flight the flight search call has been issued.
C4_BothBranchesStartedBeforeAwait ==
  Combined =>
    /\ pc = "gather" => \A d \in Domains : bpc[d] # "none"
    /\ (\E d \in Domains : bpc[d] \notin {"none", "scheduled"})
         => \A d \in Domains : bpc[d] # "none"
    /\ bpc["hotels"] = "searching" => issued["search_flights"]

C4_Witness ==
  /\ Combined /\ pc = "gather"
  /\ bpc["hotels"] = "searching" /\ bpc["flights"] = "searching"
  /\ issued["search_flights"]

\* C5: in the combined workflows the itinerary synthesizer is called exactly
\* when, after the join, both listing lists are non-empty; it is never
\* called before the join, and otherwise a response's itinerary is empty.
C5_ItineraryIffBothNonEmpty ==
  Combined =>
    /\ ~joined => ~issued["itinerary_synthesizer"]
    /\ joined =>
         (issued["itinerary_synthesizer"]
            <=> (locals.flights # <<>> /\ locals.hotels # <<>>))
    /\ (joined /\ Success /\ ~(locals.flights # <<>> /\ locals.hotels # <<>>))
         => response.body.itinerary = EmptyString

C5_Witness ==
  /\ Combined /\ joined /\ Responded /\ Success
  /\ issued["itinerary_synthesizer"]
  /\ locals.flights # <<>> /\ locals.hotels # <<>>
  /\ response.body.itinerary # EmptyString

\* The case of C6: a combined request has been answered, domain d's search
\* returned zero listings and the other domain's at least one.
C6_Case(d) ==
  /\ endpoint = "complete_search" /\ Responded /\ Success
  /\ found[d] = SearchList(<<>>)
  /\ found[Other(d)].kind = "list" /\ found[Other(d)].items # <<>>

\* C6 (as claimed): in that case the itinerary is empty, the zero-listing
\* domain's recommendation is its placeholder and the other domain's is the
\* synthesizer's text.
C6_ZeroListingsGivePlaceholder ==
  \A d \in Domains :
    C6_Case(d) =>
      /\ response.body.itinerary = EmptyString
      /\ RecOf(response.body, d) = Placeholder(d)
      /\ RecOf(response.body, Other(d)) = RecOf(outcome[Other(d)].body, Other(d))

\* C6 (amended): in that case the itinerary is empty and each domain's
\* recommendation is what its recommendation synthesizer call returned; for
\* the zero-listing domain that is the synthesizer's answer to the
\* "No flights available." / "No hotels available." text (or the apology
\* string), never the placeholder.
C6_ZeroListingsAreSynthesized ==
  \A d \in Domains :
    C6_Case(d) =>
      /\ response.body.itinerary = EmptyString
      /\ ListOf(response.body, d) = <<>>
      /\ RecOf(response.body, d) # Placeholder(d)
      /\ RecOf(response.body, d) \in
           { BackendRecommendation(KindOf(d),
               Lit(IF d = "flights" THEN "No flights available."
                   ELSE "No hotels available.")),
             RecommendationApology(KindOf(d)) }
      /\ RecOf(response.body, Other(d)) \in
           { BackendRecommendation(KindOf(Other(d)), text[Other(d)]),
             RecommendationApology(KindOf(Other(d))) }

C6_Witness ==
  /\ C6_Case("hotels")
  /\ Len(response.body.flights) = 2
  /\ response.body.ai_hotel_recommendation =
       BackendRecommendation("hotel", Lit("No hotels available."))

\* C7: when the conversation parser returns None the request is answered at
\* once with a 500 and no stage, search, recommendation or itinerary call
\* is ever issued.
C7_ParseFailureFailsFast ==
  (/\ endpoint = "from_conversation" /\ issued["parser"]
   /\ pc # "parsing" /\ plan = NoPlan)
    => /\ Responded
       /\ ErrorResponse
       /\ \A c \in Calls \ {"parser"} : ~issued[c]
       /\ \A d \in Domains : bpc[d] = "none"

C7_Witness ==
  /\ endpoint = "from_conversation" /\ Responded
  /\ response = HTTPException("Unable to generate itinerary")

\* C8: once a plan is parsed, the flight request is (departure airport code,
\* arrival airport code, departure_date, arrival_date) and the hotel request
\* is (arrival_location, departure_date, arrival_date), and neither the plan
\* nor the requests change afterwards.
C8_DerivedRequests ==
  /\ [](( endpoint = "from_conversation" /\ plan # NoPlan) =>
          /\ plan \in Plans
          /\ flight_request.origin = plan.departure_flight_airport_code
          /\ flight_request.destination = plan.arrival_flight_airport_code
          /\ flight_request.outbound_date = plan.departure_date
          /\ flight_request.return_date = plan.arrival_date
          /\ hotel_request.location = plan.arrival_location
          /\ hotel_request.check_in_date = plan.departure_date
          /\ hotel_request.check_out_date = plan.arrival_date)
  /\ [][plan # NoPlan =>
          /\ plan' = plan
          /\ flight_request' = flight_request
          /\ hotel_request' = hotel_request]_vars

C8_Witness ==
  /\ endpoint = "from_conversation" /\ Responded /\ joined
  /\ plan \in Plans
  /\ hotel_request.location = "Tokyo"
  /\ flight_request.destination = "HND"

\* C9: while the conversation handler waits for a per-domain recommendation
\* stage, both search branches have already been started.
C9_StagesDoNotBlockSearch ==
  (endpoint = "from_conversation" /\ pc \in {"flight_stage", "hotel_stage"})
    => \A d \in Domains : bpc[d] # "none"

\* C10: a combined request that has passed the join ends in a success
\* response.
C10_NoFailureAfterJoin ==
  (Combined /\ joined /\ Responded) => Success

-----------------------------------------------------------------------------
(* C11..C20                                                                *)

\* The conversation parser of this request failed: its kickoff raised, or
\* its output did not validate.
ParserFailed == env.parser.kind \in {"raise", "invalid"}

\* C11: a request that ends in failure before its join is a single-domain
\* request (workflow A) or a conversation request whose parser failed
\* (workflow C); in particular, once the parser has produced a plan no stage
\* before the join ends the request in failure.
C11_FailureBeforeJoinOnlyParserOrSingleDomain ==
  (Responded /\ ErrorResponse /\ ~joined /\ (SingleDomain \/ Combined))
    => \/ SingleDomain
       \/ endpoint = "from_conversation" /\ ParserFailed

\* The backend of the recommendation call of domain d raised.
RecommendationBackendRaised(d) == env[RecommendCall(d)] = "raise"

\* C12: a synthesizer call whose backend raises returns the apology string:
\* the branch of that domain still returns an AIResponse with the listings
\* of its search and the apology as its recommendation, so a single-domain
\* request ends in that success response and, in a combined request, the
\* join copies the listings and the apology instead of the placeholder; an
\* itinerary call whose backend raises gives the itinerary apology.
C12_BackendFailureGivesApology ==
  /\ \A d \in Domains :
       (bpc[d] = "done" /\ RecommendationBackendRaised(d))
         => /\ BranchSucceeded(d)
            /\ ListOf(outcome[d].body, d) = found[d].items
            /\ RecOf(outcome[d].body, d) = RecommendationApology(KindOf(d))
            /\ (SingleDomain /\ Responded)
                 => Success /\ response = outcome[d]
            /\ (Combined /\ joined)
                 => /\ ListOf(locals, d) = found[d].items
                    /\ RecOf(locals, d) = RecommendationApology(KindOf(d))
  /\ (Responded /\ env.itinerary_backend = "raise")
       => /\ locals.itinerary = ItineraryApology
          /\ Success => response.body.itinerary = ItineraryApology

\* A single-domain request found listings, the recommendation backend
\* raised, and the response carries the listings and the apology.
C12_Witness ==
  /\ SingleDomain /\ Responded /\ Success
  /\ RecommendationBackendRaised(DomainOf(endpoint))
  /\ ListOf(response.body, DomainOf(endpoint)) # <<>>
  /\ RecOf(response.body, DomainOf(endpoint))
       = RecommendationApology(KindOf(DomainOf(endpoint)))

\* C13: in src/services/serp.py, when the provider's answer carries an error
\* field the search call returns the error value and does not raise; when
\* the provider call itself raises, the search call raises an HTTPException
\* with status 500 (which the handler awaiting it re-raises as it is).
C13_ErrorValueVersusRaise ==
  \A d \in Domains :
    variant = "root" =>
      /\ raw[d].kind = "error" => found[d] = SearchError
      /\ raw[d].kind = "raise"
           => /\ found[d] = SearchHTTPException
              /\ outcome[d].kind = "HTTPException"
              /\ outcome[d].status = HTTP_500
              /\ outcome[d].detail = "Search API error"

\* Both cases in one combined request: the provider reported an error to
\* the flight search and the hotel search's provider call raised.
C13_Witness ==
  /\ variant = "root"
  /\ raw["flights"].kind = "error" /\ found["flights"] = SearchError
  /\ raw["hotels"].kind = "raise" /\ found["hotels"] = SearchHTTPException

\* The search of domain d failed: the provider call raised, or the provider
\* reported an error.
SearchFailed(d) == raw[d].kind \in {"raise", "error"}

\* C14: in a combined request a branch whose provider call raised and a
\* branch whose provider reported an error look the same after the join:
\* either contributes the empty list and its domain's placeholder.  Neither
\* stops the other branch, which runs to its end and contributes what its own
\* result dictates, nor the request, which src/main.py answers with a success
\* response.
C14_TransportAndProviderFailuresAlike ==
  \A d \in Domains :
    (Combined /\ joined /\ SearchFailed(d))
      => /\ ListOf(locals, d) = <<>>
         /\ RecOf(locals, d) = Placeholder(d)
         /\ bpc[Other(d)] = "done"
         /\ raw[Other(d)] # NoRaw
         /\ ListOf(locals, Other(d)) =
              IF BranchSucceeded(Other(d))
                THEN ListOf(outcome[Other(d)].body, Other(d)) ELSE <<>>
         /\ RecOf(locals, Other(d)) =
              IF BranchSucceeded(Other(d))
                THEN RecOf(outcome[Other(d)].body, Other(d))
                ELSE Placeholder(Other(d))
         /\ (variant = "root" /\ Responded) => Success

\* One request with both kinds of failure, answered with both placeholders.
C14_Witness ==
  /\ endpoint = "complete_search" /\ Responded /\ Success
  /\ raw["flights"].kind = "raise" /\ raw["hotels"].kind = "error"
  /\ response.body.flights = <<>> /\ response.body.hotels = <<>>
  /\ response.body.ai_flight_recommendation = CouldNotRetrieveFlights
  /\ response.body.ai_hotel_recommendation = CouldNotRetrieveHotels

\* The listing made from record i is among items.
Listed(i, items) == \E k \in 1..Len(items) : items[k] = i

\* C15: for both domains, when the provider answers with a batch of records
\* the search call returns a list: every well-formed record is in it and a
\* record with a nested field that is not a mapping is left out of it; one
\* malformed record never makes the whole search call fail.
C15_MalformedRecordSkipped ==
  \A d \in Domains :
    raw[d].kind = "batch"
      => /\ found[d].kind = "list"
         /\ \A i \in 1..Len(raw[d].records) :
              /\ raw[d].records[i] = "ok" => Listed(i, found[d].items)
              /\ raw[d].records[i] = "badnested"
                   => ~Listed(i, found[d].items)

\* What the branch of domain d returns or raises when it is run alone, from
\* start to end, against the answers recorded for this request.
ReferenceBranch(d) ==
  LET r == AfterSearch(variant, d, raw[d])
  IN  IF r.next = "done" THEN r.outcome
      ELSE AfterRecommendation(variant, d, r.found, r.text,
                               env[RecommendCall(d)])

\* The per-request variables of a combined handler that runs the flight
\* branch, then the hotel branch, then the itinerary step, one after another.
ReferenceLocals ==
  LET l == JoinLocals(ReferenceBranch("flights"), ReferenceBranch("hotels"))
      args == JoinItineraryArgs(variant, flight_request, l)
      prep == GenerateItineraryPrepare(variant, args)
  IN  IF ~ShouldGenerateItinerary(l.flights, l.hotels) THEN l
      ELSE IF ~prep.call THEN [l EXCEPT !.itinerary = ItineraryApology]
      ELSE [l EXCEPT !.itinerary =
              GenerateItineraryFinish(variant, args, prep.days,
                                      env.itinerary_backend)]

\* C16: the result of a combined request does not depend on which branch
\* finishes first: whatever the interleaving of the two branches, the
\* response is the one a strictly sequential run gives for the same provider
\* and synthesizer answers.
C16_CompletionOrderIrrelevant ==
  (Combined /\ joined /\ Responded)
    => /\ locals = ReferenceLocals
       /\ response = CombinedReturn(variant, endpoint, ReferenceLocals)

\* The hotel branch, created last, finished first, and the response carries
\* listings of both domains.
C16_Witness ==
  /\ Combined /\ joined /\ Responded /\ Success
  /\ finished = <<"hotels", "flights">>
  /\ response.body.flights # <<>> /\ response.body.hotels # <<>>
  /\ response.body.flights # response.body.hotels

\* C17: a request served a second time, against a provider and synthesizers
\* that answer as they did the first time, gets the response it got the
\* first time: nothing of the first request is left in the second.
C17_SameRequestSameResponse ==
  (run = 2 /\ Responded) => response = first.response

\* A combined request with listings of both domains and an itinerary,
\* answered twice.
C17_Witness ==
  /\ run = 2 /\ Responded /\ Success /\ Combined
  /\ response.body.flights # <<>> /\ response.body.hotels # <<>>
  /\ response.body.itinerary.tag = "itinerary"
  /\ response = first.response

\* C18: in POST /complete_search/ the hotel branch is run with the hotel
\* request the client supplied, unchanged; when the client supplied none, it
\* is run with location = the flight request's destination, check_in_date =
\* its outbound_date and check_out_date = its return_date.
C18_HotelRequestDefaulted ==
  (endpoint = "complete_search" /\ bpc["hotels"] # "none")
    => /\ request.hotel = NoHotelRequest
            => branch_request["hotels"] =
                 [location |-> request.flight.destination,
                  check_in_date |-> request.flight.outbound_date,
                  check_out_date |-> request.flight.return_date]
       /\ request.hotel # NoHotelRequest
            => branch_request["hotels"] = request.hotel

\* No hotel request was supplied and the hotel search has been issued for
\* the flight's destination and dates.
C18_Witness ==
  /\ endpoint = "complete_search"
  /\ request.hotel = NoHotelRequest
  /\ issued["search_hotels"]
  /\ branch_request["hotels"].location = "HND"
  /\ branch_request["hotels"].check_in_date = "2025-12-08"
  /\ branch_request["hotels"].check_out_date = "2025-12-01"

AggregatedFields ==
  {"flights", "hotels", "ai_flight_recommendation", "ai_hotel_recommendation",
   "itinerary"}

\* C19: every success response, of every workflow, is a total aggregated
\* response: it has exactly the five fields, the two lists are lists
\* (possibly empty) and the three texts are strings (possibly empty), none of
\* them absent.
C19_SuccessResponseIsTotal ==
  (Responded /\ Success)
    => /\ DOMAIN response.body = AggregatedFields
       /\ response.body.flights \in Seq(1..MaxRecords)
       /\ response.body.hotels \in Seq(1..MaxRecords)
       /\ response.body.ai_flight_recommendation # Absent
       /\ response.body.ai_hotel_recommendation # Absent
       /\ response.body.itinerary # Absent

\* A combined request in which both branches raised: its success response
\* still has the five fields, all at their defaults.
C19_Witness ==
  /\ Combined /\ Responded /\ Success
  /\ BranchFailed("flights") /\ BranchFailed("hotels")
  /\ DOMAIN response.body = AggregatedFields
  /\ response.body.itinerary = EmptyString

\* The search stage of the single-domain request failed: the provider
\* reported an error, the provider call raised, or the results could not be
\* processed.
SingleDomainSearchFailed ==
  /\ SingleDomain /\ Responded
  /\ \/ SearchFailed(DomainOf(endpoint))
     \/ found[DomainOf(endpoint)].kind = "exception"

\* C20: in a single-domain request every failure of the search stage ends
\* in a 500 response whose detail is the domain's own message: the
\* flight-search message for /search_flights/, the hotel-search message for
\* /search_hotels/.
C20_DomainSpecificDetail ==
  SingleDomainSearchFailed
    => /\ response.kind = "HTTPException"
       /\ response.status = HTTP_500
       /\ response.detail = DomainError(DomainOf(endpoint))

\* C20, amended: every failure of the search stage ends in a 500 response;
\* its detail is the domain's own message when the provider reported an
\* error or the results could not be processed, and the gateway's message,
\* the same for both domains, when the provider call raised.
C20_SearchFailureDetail ==
  SingleDomainSearchFailed
    => /\ response.kind = "HTTPException"
       /\ response.status = HTTP_500
       /\ response.detail =
            IF raw[DomainOf(endpoint)].kind = "raise"
              THEN "Search API error"
              ELSE DomainError(DomainOf(endpoint))

\* The provider call of /search_hotels/ raised and the response is a 500
\* with the gateway's message.
C20_Witness ==
  /\ endpoint = "search_hotels" /\ Responded
  /\ raw["hotels"].kind = "raise"
  /\ response.status = HTTP_500
  /\ response.detail = "Search API error"

-----------------------------------------------------------------------------
(* C21..C30                                                                *)

\* The itinerary synthesizer has been called with both dates given.
ItineraryCalledWithDates ==
  /\ issued["itinerary_synthesizer"]
  /\ itin.args.check_in_date # "" /\ itin.args.check_out_date # ""

\* check_out_date minus check_in_date of the itinerary call, in days.
TripLength ==
  DayNumber(itin.args.check_out_date) - DayNumber(itin.args.check_in_date)

\* C21: when the itinerary synthesizer is called with a check_out_date equal
\* to or earlier than the check_in_date, the call is not rejected: the
\* backend is asked, and the day count it is given is check_out_date minus
\* check_in_date, zero or negative, as it is.
C21_NonPositiveTripLengthPassedOn ==
  (ItineraryCalledWithDates /\ TripLength <= 0)
    => /\ issued["itinerary_backend"]
       /\ itin.days = TripLength
       /\ env.itinerary_backend = "ok"
            => /\ locals.itinerary.tag = "itinerary"
               /\ locals.itinerary.days = TripLength

\* src/app/services/crew.py asked for an itinerary from 2025-12-08 to
\* 2025-12-01 and the backend answered a task of -7 days.
C21_Witness ==
  /\ variant = "app" /\ endpoint = "generate_itinerary"
  /\ ItineraryCalledWithDates /\ TripLength = 0 - 7
  /\ env.itinerary_backend = "ok"
  /\ locals.itinerary.days = 0 - 7

\* The itinerary synthesizer has been called with an empty check-in or
\* check-out date.
ItineraryCalledWithoutDates ==
  /\ issued["itinerary_synthesizer"]
  /\ itin.args.check_in_date = "" \/ itin.args.check_out_date = ""

\* C22: an itinerary request whose check-in or check-out date is empty is
\* accepted and passed on to the backend: the synthesizer does not reject it
\* and the text-generation backend is still asked for the itinerary.
C22_MissingRangePassedOn ==
  ItineraryCalledWithoutDates => issued["itinerary_backend"]

\* C22, amended: in src/app/services/crew.py an itinerary request whose
\* check-in or check-out date is empty is rejected inside the synthesizer:
\* the backend is not asked and the call returns the apology string.
C22_MissingRangeGivesApology ==
  (variant = "app" /\ ItineraryCalledWithoutDates)
    => /\ ~issued["itinerary_backend"]
       /\ env.itinerary_backend = "not_called"
       /\ locals.itinerary = ItineraryApology
       /\ Responded

\* POST /generate_itinerary/ of src/app/main.py with an empty check-out
\* date: the apology was returned without a backend call.
C22_Witness ==
  /\ variant = "app" /\ endpoint = "generate_itinerary"
  /\ itin.args.check_in_date = "2025-12-01"
  /\ itin.args.check_out_date = ""
  /\ issued["itinerary_synthesizer"] /\ ~issued["itinerary_backend"]
  /\ locals.itinerary = ItineraryApology

\* The fields of domain d that a combined handler derives from the result x
\* of that domain's branch, and from nothing else.
FieldsFrom(d, x) ==
  IF x.kind = "AIResponse"
    THEN [list |-> ListOf(x.body, d), rec |-> RecOf(x.body, d)]
    ELSE [list |-> <<>>, rec |-> Placeholder(d)]

\* C23: in a combined request the flight fields (flights,
\* ai_flight_recommendation) are a function of the flight branch's outcome
\* alone and the hotel fields of the hotel branch's outcome alone, in the
\* per-request variables and in a success response, and a branch's outcome
\* is a function of the answers to its own calls; so changing the outcome of
\* one branch leaves the other domain's fields as they are.
C23_FieldsFollowOwnBranch ==
  (Combined /\ joined)
    => \A d \in Domains :
         /\ outcome[d] = ReferenceBranch(d)
         /\ ListOf(locals, d) = FieldsFrom(d, outcome[d]).list
         /\ RecOf(locals, d) = FieldsFrom(d, outcome[d]).rec
         /\ (Responded /\ Success)
              => /\ ListOf(response.body, d) = FieldsFrom(d, outcome[d]).list
                 /\ RecOf(response.body, d) = FieldsFrom(d, outcome[d]).rec

\* The hotel branch raised and the flight fields of the response are still
\* the listings and the recommendation the flight branch returned.
C23_Witness ==
  /\ Combined /\ Responded /\ Success
  /\ BranchFailed("hotels") /\ BranchSucceeded("flights")
  /\ response.body.flights = outcome["flights"].body.flights
  /\ response.body.flights # <<>>
  /\ response.body.ai_flight_recommendation.tag = "recommendation"

\* C24: a dependent stage starts only after its inputs are there: the
\* recommendation call of a branch is issued only after that branch's search
\* call has returned a result; in a combined request the itinerary
\* synthesizer is called only after the join, with both branches finished;
\* and in the conversation workflow a search call is issued only after the
\* parser has returned a plan.
C24_DependentStagesWait ==
  /\ \A d \in Domains :
       issued[RecommendCall(d)]
         => raw[d] # NoRaw /\ found[d] # NoSearchResult
  /\ (Combined /\ issued["itinerary_synthesizer"])
       => joined /\ \A d \in Domains : bpc[d] = "done"
  /\ (endpoint = "from_conversation"
        /\ (issued["search_flights"] \/ issued["search_hotels"]))
       => env.parser.kind = "plan" /\ plan = env.parser.plan

\* All three dependent calls of a combined request have been issued.
C24_Witness ==
  /\ endpoint = "complete_search"
  /\ issued["recommend_flights"] /\ issued["recommend_hotels"]
  /\ issued["itinerary_synthesizer"]
  /\ joined

\* The four per-domain fields of the per-request variables.
DomainFields(l) ==
  <<l.flights, l.hotels, l.ai_flight_recommendation, l.ai_hotel_recommendation>>

\* C25: in a combined request the per-request variables (flights, hotels,
\* both recommendations, itinerary) are written by the handler only, while
\* no branch is running: the four per-domain fields once, at the join, and
\* the itinerary after that, by the itinerary step; a branch writes nothing
\* but its own result, never the other branch's; and the variables are read
\* (for the itinerary call and for the response) only after the join.
C25_SingleWriterReadAfterWrite ==
  [][Combined =>
       /\ locals' # locals
            => /\ \A d \in Domains : bpc[d] = "done"
               /\ pc \in {"gather", "itinerary"}
       /\ DomainFields(locals') # DomainFields(locals)
            => ~joined /\ joined'
       /\ (joined /\ locals' # locals) => pc = "itinerary"
       /\ \A d \in Domains :
            outcome'[d] # outcome[d]
              => /\ bpc[d] \in {"searching", "recommending"}
                 /\ outcome'[Other(d)] = outcome[Other(d)]
       /\ itin' # itin
            => /\ joined'
               /\ itin'.args =
                    JoinItineraryArgs(variant, flight_request, locals')
       /\ (response' # response /\ response'.kind = "AIResponse")
            => joined' /\ response'.body = locals'
  ]_vars

\* A combined request answered from per-request variables that the join and
\* the itinerary step have filled.
C25_Witness ==
  /\ Combined /\ joined /\ Responded /\ Success
  /\ response.body = locals
  /\ locals.flights # <<>> /\ locals.hotels # <<>>
  /\ locals.itinerary.tag = "itinerary"

IsPrefix(s, t) == Len(s) <= Len(t) /\ SubSeq(t, 1, Len(s)) = s

\* C26: the chat store is append-only and nothing is ever evicted: over any
\* step of start_chat, keep_chat and get_chat every chat id of the store is
\* still in it and its message list before the step is a prefix of its list
\* after the step (so the same holds between any earlier and any later
\* state, the seeded chat included); and a step that adds chat ids adds
\* exactly one new id and leaves every other chat's history as it was.
C26_ChatStoreAppendOnly ==
  /\ [](/\ SeedChatId \in DOMAIN database
        /\ IsPrefix(SeedDatabase[SeedChatId], database[SeedChatId]))
  /\ [][/\ \A id \in DOMAIN database :
             /\ id \in DOMAIN database'
             /\ IsPrefix(database[id], database'[id])
        /\ DOMAIN database' # DOMAIN database
             => /\ \E new \in ChatIds \ DOMAIN database :
                     DOMAIN database' = DOMAIN database \cup {new}
                /\ \A id \in DOMAIN database : database'[id] = database[id]
       ]_vars

\* The seeded chat has grown by a question and its answer, a chat started
\* since has its three messages, and get_chat has just returned it.
C26_Witness ==
  /\ Len(database[SeedChatId]) = Len(SeedDatabase[SeedChatId]) + 2
  /\ \E id \in DOMAIN database \ {SeedChatId} :
       /\ Len(database[id]) = 3
       /\ chat_reply.kind = "history" /\ chat_reply.chat_id = id

\* C27: when every external call returns or raises in the end, every
\* request reaches Responded; and the join waits without a timeout: while a
\* branch of a combined request is not done the handler stays suspended in
\* gather, so a request that has forked has responded only if both branches
\* are done.
C27_ForkJoinLiveness ==
  /\ <>Responded
  /\ [][(pc = "gather" /\ \E d \in Domains : bpc[d] # "done")
          => pc' = "gather"]_vars
  /\ []((Combined /\ Responded /\ bpc["flights"] # "none")
          => \A d \in Domains : bpc[d] = "done")

\* The flight branch is done, the hotel branch still waits for its search,
\* and the handler is still suspended in gather.
C27_Witness ==
  /\ Combined /\ pc = "gather"
  /\ bpc["flights"] = "done" /\ bpc["hotels"] = "searching"
  /\ response = NoOutcome

\* "No flights available." / "No hotels available."
NoneAvailable(d) ==
  IF d = "flights" THEN Lit("No flights available.")
  ELSE Lit("No hotels available.")

\* C28: in a single-domain request of src/main.py a search that returns
\* zero listings is not a failure: the recommendation synthesizer is called
\* on the "No ... available." text and the request ends in a success
\* response with the empty list and what the synthesizer returned.
C28_ZeroListingsStillRecommended ==
  \A d \in Domains :
    (/\ variant = "root" /\ SingleDomain /\ Responded
     /\ found[d] = SearchList(<<>>))
      => /\ issued[RecommendCall(d)]
         /\ env[RecommendCall(d)] \in BackendOutcomes
         /\ text[d] = NoneAvailable(d)
         /\ Success
         /\ ListOf(response.body, d) = <<>>
         /\ RecOf(response.body, d) =
              GetAiRecommendation("root", KindOf(d), NoneAvailable(d),
                                  env[RecommendCall(d)])

\* /search_flights/ got an empty batch from the provider and answered with
\* no flights and the backend's recommendation for "No flights available.".
C28_Witness ==
  /\ variant = "root" /\ endpoint = "search_flights" /\ Responded /\ Success
  /\ raw["flights"] = [kind |-> "batch", records |-> <<>>]
  /\ response.body.flights = <<>>
  /\ response.body.ai_flight_recommendation =
       BackendRecommendation(KindOf("flights"), NoneAvailable("flights"))

\* C29: in the combined workflows the itinerary synthesizer is called with
\* the flight request's destination, outbound_date and return_date; a hotel
\* request the caller supplied, whatever its location and dates, changes
\* nothing in the destination and the dates of that call.
C29_ItineraryFromFlightRequest ==
  (Combined /\ issued["itinerary_synthesizer"])
    => /\ itin.args.destination = flight_request.destination
       /\ itin.args.check_in_date = flight_request.outbound_date
       /\ itin.args.check_out_date = flight_request.return_date
       /\ endpoint = "complete_search"
            => /\ flight_request = request.flight
               /\ itin.args.destination = request.flight.destination
               /\ itin.args.check_in_date = request.flight.outbound_date
               /\ itin.args.check_out_date = request.flight.return_date

\* The caller's hotel request names another place and other dates than the
\* flight request, and the itinerary call has the flight request's.
C29_Witness ==
  /\ endpoint = "complete_search" /\ issued["itinerary_synthesizer"]
  /\ request.hotel # NoHotelRequest
  /\ branch_request["hotels"] = request.hotel
  /\ request.hotel.location # request.flight.destination
  /\ request.hotel.check_in_date # request.flight.outbound_date
  /\ request.hotel.check_out_date # request.flight.return_date
  /\ itin.args.check_in_date = request.flight.outbound_date
  /\ itin.args.check_out_date = request.flight.return_date

\* One of the two recommendation stages of the conversation workflow raised.
StageRaised == env.flight_stage = "raise" \/ env.hotel_stage = "raise"

\* C30: in the conversation workflow what generate_flight_recommendation
\* and generate_hotel_recommendation return does not reach the response:
\* after the join the per-request variables and the response are those that
\* the plan, the provider's answers and the synthesizers' answers give,
\* whatever the stages returned; and an exception of either stage ends the
\* request at once, before any search branch is started.
C30_StageValuesUnusedStageFailureFatal ==
  endpoint = "from_conversation"
    => /\ (joined /\ Responded)
            => /\ env.flight_stage \in {"none", "listing"}
               /\ env.hotel_stage \in {"none", "listing"}
               /\ flight_request = DeriveFlightRequest(env.parser.plan)
               /\ locals = ReferenceLocals
               /\ response = CombinedReturn(variant, endpoint, ReferenceLocals)
       /\ StageRaised
            => /\ Responded /\ response = Unhandled /\ ~joined
               /\ \A d \in Domains :
                    bpc[d] = "none" /\ ~issued[SearchCall(d)]

\* The flight stage returned a listing, the hotel stage returned nothing,
\* and the request went through the join to its response.
C30_Witness ==
  /\ endpoint = "from_conversation" /\ joined /\ Responded
  /\ env.flight_stage = "listing" /\ env.hotel_stage = "none"
  /\ stage["flights"] = "listing"

====
